---- MODULE Spec2Model ----
(***************************************************************************)
(* A model of the coordination core of fleet-server:                       *)
(*   - the policy-leadership lease operations of                           *)
(*     internal/pkg/dl/policies_leader.go (SearchPolicyLeaders,            *)
(*     TakePolicyLeadership, ReleasePolicyLeadership), and                 *)
(*   - the enrollment handler (EnrollerT.handleEnroll, _enroll and their   *)
(*     helpers).                                                           *)
(* Every call is a sequence of atomic steps, one per round trip to the     *)
(* document store or the credential issuer; the local computation that     *)
(* follows a round trip belongs to the step of that round trip.            *)
(* LeaseSpec runs the lease operations, EnrollSpec the enrollments.        *)
(***************************************************************************)
EXTENDS Integers, Sequences, FiniteSets, TLC

\* ------------------------------------------------------------------ bounds
\* Calls started in one behaviour of LeaseSpec.
MaxCalls == 2
\* The clock advances at most MaxTicks times.
MaxTicks == 1

\* Seconds: kCacheAccessInitTTL and kCacheEnrollmentTTL are time.Second * 30.
kCacheAccessInitTTL == 30
kCacheEnrollmentTTL == 30

\* The clock advances by a cache TTL at a time.
ClockStep == kCacheEnrollmentTTL

\* Two units of work run concurrently (two replicas, or two goroutines of one).
Procs == {"r1", "r2"}
Policies == {"p1", "p2"}
Servers == {"srvA", "srvB"}
Versions == {"v1", "v2"}
\* releaseInterval values handed to ReleasePolicyLeadership (positive durations).
Intervals == {ClockStep}

VARIABLES
    now,       \* the wall clock (time.Now())
    leaders,   \* the .fleet-policies-leader index: document id -> [seq, src]
    calls,     \* lease calls started so far
    lproc,     \* per unit of work: the lease call it runs and that call's locals
    limit,     \* cfg.Limits.EnrollLimit.Max: the enrollments admitted at a time
    held,      \* slots of the enroll limiter that are taken
    ekeys,     \* the .fleet-enrollment-api-keys index: key id -> record
    ecache,    \* the cache's enrollment keys: key id -> [rec, expires]
    acache,    \* the cache's access API keys: key id -> [key, expires]
    apikeys,   \* the access API keys the credential issuer has minted and holds valid
    agents,    \* the .fleet-agents index: agent id -> document
    eproc      \* per unit of work: the enrollment it runs and its locals

leaseVars == <<leaders, calls, lproc>>

enrollVars == <<limit, held, ekeys, ecache, acache, apikeys, agents, eproc>>

vars == <<now, leaders, calls, lproc, limit, held, ekeys, ecache, acache, apikeys, agents, eproc>>

\* ------------------------------------------------- documents and structs
\* A stored document and a Go struct are functions from the fields that are
\* present to their values; an absent field (a nil pointer, an omitted JSON
\* key) is a field outside the DOMAIN.

Has(f, k) == k \in DOMAIN f

\* f with field k set to v.
With(f, k, v) == [x \in (DOMAIN f) \cup {k} |-> IF x = k THEN v ELSE f[x]]

EmptyStruct == [x \in {} |-> 0]

\* json.Unmarshal(data, &l) into model.PolicyLeader.
UnmarshalLeader(src) ==
    [x \in {f \in {"Server", "Timestamp"} :
               \/ f = "Server" /\ Has(src, "server")
               \/ f = "Timestamp" /\ Has(src, "@timestamp")} |->
        IF x = "Server"
        THEN [Id |-> src["server"].id, Version |-> src["server"].version]
        ELSE src["@timestamp"]]

\* json.Marshal(l) of a model.PolicyLeader.
MarshalLeader(l) ==
    [x \in {f \in {"server", "@timestamp"} :
               \/ f = "server" /\ Has(l, "Server")
               \/ f = "@timestamp" /\ Has(l, "Timestamp")} |->
        IF x = "server"
        THEN [id |-> l["Server"].Id, version |-> l["Server"].Version]
        ELSE l["Timestamp"]]

\* l.SetTime(t)
SetTime(l, t) == With(l, "Timestamp", t)

\* ---------------------------------------------------- the document store
\* The bulker is not part of the sources at hand; it is modelled from its
\* description: create / read / update / search over versioned documents.

Exists(index, id) == id \in DOMAIN index

\* bulker.Create: the document must not exist yet.
StoreCreate(index, id, src) ==
    [x \in (DOMAIN index) \cup {id} |->
        IF x = id THEN [seq |-> 1, src |-> src] ELSE index[x]]

\* bulker.Update with a {"doc": ...} body: a partial update, the fields of
\* doc replace those of the stored document, the others stay.
StoreUpdate(index, id, doc) ==
    [index EXCEPT ![id] =
        [seq |-> @.seq + 1,
         src |-> [x \in (DOMAIN @.src) \cup (DOMAIN doc) |->
                     IF x \in DOMAIN doc THEN doc[x] ELSE @.src[x]]]]

\* bulker.Search with the terms query on _id: the hits.
StoreSearchIds(index, ids) == {id \in ids : Exists(index, id)}

\* ------------------------------------------------------ lease operations
\* The locals of one call. ret is "" while the call runs, "nil" for success,
\* the error otherwise ("panic": the goroutine died of a nil dereference).
\* err is what the last bulker call returned, seen the sequence number of the
\* document when it was read, issued the number of Create/Update requests the
\* call sent to the store.
IdleCall ==
    [pc |-> "idle", op |-> "none", policyId |-> "", ids |-> {}, serverId |-> "",
     version |-> "", releaseInterval |-> 0, l |-> EmptyStruct, found |-> FALSE,
     seen |-> 0, err |-> "", ret |-> "", issued |-> 0, leaders |-> EmptyStruct]

CanStart(p) == lproc[p].pc \in {"idle", "done"} /\ calls < MaxCalls

\* The call returns ret after the bulker call returned err.
Return(p, err, ret) == [lproc[p] EXCEPT !.pc = "done", !.err = err, !.ret = ret]

\* A caller invokes TakePolicyLeadership(ctx, bulker, policyId, serverId, version).
StartTake(p) ==
    /\ CanStart(p)
    /\ \E pol \in Policies, s \in Servers, v \in Versions :
          lproc' = [lproc EXCEPT ![p] =
                       [IdleCall EXCEPT !.pc = "take_read", !.op = "take",
                                        !.policyId = pol, !.serverId = s, !.version = v]]
    /\ calls' = calls + 1
    /\ UNCHANGED <<now, leaders, enrollVars>>

\* A caller invokes ReleasePolicyLeadership(ctx, bulker, policyId, serverId, releaseInterval).
StartRelease(p) ==
    /\ CanStart(p)
    /\ \E pol \in Policies, s \in Servers, d \in Intervals :
          lproc' = [lproc EXCEPT ![p] =
                       [IdleCall EXCEPT !.pc = "release_read", !.op = "release",
                                        !.policyId = pol, !.serverId = s,
                                        !.releaseInterval = d]]
    /\ calls' = calls + 1
    /\ UNCHANGED <<now, leaders, enrollVars>>

\* A caller invokes SearchPolicyLeaders(ctx, bulker, ids).
StartSearch(p) ==
    /\ CanStart(p)
    /\ \E ids \in SUBSET Policies :
          lproc' = [lproc EXCEPT ![p] =
                       [IdleCall EXCEPT !.pc = "search", !.op = "search", !.ids = ids]]
    /\ calls' = calls + 1
    /\ UNCHANGED <<now, leaders, enrollVars>>

\* ---- SearchPolicyLeaders

\* Mutant: the hit's source is not unmarshalled into the entry.
LeadersOfHits_empty(index, hits) == [id \in hits |-> EmptyStruct]

\* The result map built from the hits: hit.Id -> the unmarshalled source.
LeadersOfHits(index, hits) == [id \in hits |-> UnmarshalLeader(index[id].src)]

SearchOk(p) ==
    /\ lproc[p].pc = "search"
    /\ lproc' = [lproc EXCEPT ![p] =
                    [Return(p, "nil", "nil") EXCEPT
                        !.leaders = LeadersOfHits(leaders, StoreSearchIds(leaders, lproc[p].ids))]]
    /\ UNCHANGED <<now, leaders, calls, enrollVars>>

\* bulker.Search failed: the error is returned, no map.
SearchFail(p) ==
    /\ lproc[p].pc = "search"
    /\ lproc' = [lproc EXCEPT ![p] = Return(p, "ErrStore", "ErrStore")]
    /\ UNCHANGED <<now, leaders, calls, enrollVars>>

\* ---- TakePolicyLeadership

\* Mutant: l.Server.Version = version is left out.
ClaimedLeader_noVersion(l, serverId, version, t) ==
    SetTime(With(l, "Server",
                 [Id |-> serverId,
                  Version |-> IF Has(l, "Server") THEN l["Server"].Version ELSE ""]), t)

\* The lease the claim writes: the identity of the caller and the current time,
\* over what was read (a nil Server is allocated first).
ClaimedLeader(l, serverId, version, t) ==
    SetTime(With(l, "Server", [Id |-> serverId, Version |-> version]), t)

\* bulker.Read failed with anything but ErrElasticNotFound.
TakeReadFail(p) ==
    /\ lproc[p].pc = "take_read"
    /\ lproc' = [lproc EXCEPT ![p] = Return(p, "ErrStore", "ErrStore")]
    /\ UNCHANGED <<now, leaders, calls, enrollVars>>

\* bulker.Read answered (a document or ErrElasticNotFound); l is filled in.
TakeReadOk(p) ==
    /\ lproc[p].pc = "take_read"
    /\ LET c == lproc[p]
           found == Exists(leaders, c.policyId)
           l == IF found THEN UnmarshalLeader(leaders[c.policyId].src) ELSE EmptyStruct
       IN lproc' = [lproc EXCEPT ![p] =
                       [c EXCEPT !.pc = "take_write", !.found = found,
                                 !.err = IF found THEN "nil" ELSE "ErrElasticNotFound",
                                 !.seen = IF found THEN leaders[c.policyId].seq ELSE 0,
                                 !.l = ClaimedLeader(l, c.serverId, c.version, now)]]
    /\ UNCHANGED <<now, leaders, calls, enrollVars>>

\* found: bulker.Update(ctx, FleetPoliciesLeader, policyId, {"doc": l}) succeeded.
TakeUpdateOk(p) ==
    /\ lproc[p].pc = "take_write" /\ lproc[p].found
    /\ Exists(leaders, lproc[p].policyId)
    /\ leaders' = StoreUpdate(leaders, lproc[p].policyId, MarshalLeader(lproc[p].l))
    /\ lproc' = [lproc EXCEPT ![p] = [Return(p, "nil", "nil") EXCEPT !.issued = @ + 1]]
    /\ UNCHANGED <<now, calls, enrollVars>>

\* not found: bulker.Create(ctx, FleetPoliciesLeader, policyId, l) succeeded.
TakeCreateOk(p) ==
    /\ lproc[p].pc = "take_write" /\ ~lproc[p].found
    /\ ~Exists(leaders, lproc[p].policyId)
    /\ leaders' = StoreCreate(leaders, lproc[p].policyId, MarshalLeader(lproc[p].l))
    /\ lproc' = [lproc EXCEPT ![p] = [Return(p, "nil", "nil") EXCEPT !.issued = @ + 1]]
    /\ UNCHANGED <<now, calls, enrollVars>>

\* Mutant: the claim path takes the version conflict for a success.
TakeWriteConflict_benign(p) ==
    /\ lproc[p].pc = "take_write"
    /\ Exists(leaders, lproc[p].policyId)
    /\ lproc[p].found => leaders[lproc[p].policyId].seq # lproc[p].seen
    /\ lproc' = [lproc EXCEPT ![p] =
                    [Return(p, "ErrElasticVersionConflict", "nil") EXCEPT !.issued = @ + 1]]
    /\ UNCHANGED <<now, leaders, calls, enrollVars>>

\* The store rejected the write with a version conflict: a create of a document
\* that exists by now, or an update racing with another write to the document.
\* The claim path returns the error.
TakeWriteConflict(p) ==
    /\ lproc[p].pc = "take_write"
    /\ Exists(leaders, lproc[p].policyId)
    /\ lproc[p].found => leaders[lproc[p].policyId].seq # lproc[p].seen
    /\ lproc' = [lproc EXCEPT ![p] =
                    [Return(p, "ErrElasticVersionConflict", "ErrElasticVersionConflict")
                        EXCEPT !.issued = @ + 1]]
    /\ UNCHANGED <<now, leaders, calls, enrollVars>>

\* The write failed for another reason; nothing was written.
TakeWriteFail(p) ==
    /\ lproc[p].pc = "take_write"
    /\ lproc' = [lproc EXCEPT ![p] = [Return(p, "ErrStore", "ErrStore") EXCEPT !.issued = @ + 1]]
    /\ UNCHANGED <<now, leaders, calls, enrollVars>>

\* ---- ReleasePolicyLeadership

\* Mutant: the comparison with the caller's id is dropped.
IsLeader_always(l, serverId) == TRUE

\* l.Server.Id != serverId, negated: the stored lease identifies the caller.
IsLeader(l, serverId) == l["Server"].Id = serverId

\* Mutant: the interval is added instead of subtracted.
Released_forward(t, releaseInterval) == t + releaseInterval

\* released := time.Now().UTC().Add(-releaseInterval)
Released(t, releaseInterval) == t - releaseInterval

\* What the release returns when bulker.Update returned updateErr.
ReleaseResult(updateErr) ==
    IF updateErr = "ErrElasticVersionConflict" THEN "nil" ELSE updateErr

\* Mutant: ErrElasticNotFound is returned like any other read error.
ReleaseNotFound_err(p) ==
    /\ lproc[p].pc = "release_read"
    /\ ~Exists(leaders, lproc[p].policyId)
    /\ lproc' = [lproc EXCEPT ![p] = Return(p, "ErrElasticNotFound", "ErrElasticNotFound")]
    /\ UNCHANGED <<now, leaders, calls, enrollVars>>

\* bulker.Read returned ErrElasticNotFound: nothing to do.
ReleaseNotFound(p) ==
    /\ lproc[p].pc = "release_read"
    /\ ~Exists(leaders, lproc[p].policyId)
    /\ lproc' = [lproc EXCEPT ![p] = Return(p, "ErrElasticNotFound", "nil")]
    /\ UNCHANGED <<now, leaders, calls, enrollVars>>

\* bulker.Read failed otherwise.
ReleaseReadFail(p) ==
    /\ lproc[p].pc = "release_read"
    /\ lproc' = [lproc EXCEPT ![p] = Return(p, "ErrStore", "ErrStore")]
    /\ UNCHANGED <<now, leaders, calls, enrollVars>>

\* The lease read has no server identity: l.Server is nil and l.Server.Id
\* dereferences it.
ReleaseNilServer(p) ==
    /\ lproc[p].pc = "release_read"
    /\ Exists(leaders, lproc[p].policyId)
    /\ LET l == UnmarshalLeader(leaders[lproc[p].policyId].src)
       IN /\ ~Has(l, "Server")
          /\ lproc' = [lproc EXCEPT ![p] = [Return(p, "nil", "panic") EXCEPT !.l = l, !.found = TRUE]]
    /\ UNCHANGED <<now, leaders, calls, enrollVars>>

\* The lease read identifies another server: not leader anymore, nothing to do.
ReleaseNotLeader(p) ==
    /\ lproc[p].pc = "release_read"
    /\ Exists(leaders, lproc[p].policyId)
    /\ LET l == UnmarshalLeader(leaders[lproc[p].policyId].src)
       IN /\ Has(l, "Server")
          /\ ~IsLeader(l, lproc[p].serverId)
          /\ lproc' = [lproc EXCEPT ![p] = [Return(p, "nil", "nil") EXCEPT !.l = l, !.found = TRUE]]
    /\ UNCHANGED <<now, leaders, calls, enrollVars>>

\* The lease read identifies the caller: the time is set back and the update
\* is prepared.
ReleaseRead(p) ==
    /\ lproc[p].pc = "release_read"
    /\ Exists(leaders, lproc[p].policyId)
    /\ LET c == lproc[p]
           l == UnmarshalLeader(leaders[c.policyId].src)
       IN /\ Has(l, "Server")
          /\ IsLeader(l, c.serverId)
          /\ lproc' = [lproc EXCEPT ![p] =
                          [c EXCEPT !.pc = "release_write", !.found = TRUE, !.err = "nil",
                                    !.seen = leaders[c.policyId].seq,
                                    !.l = SetTime(l, Released(now, c.releaseInterval))]]
    /\ UNCHANGED <<now, leaders, calls, enrollVars>>

\* Mutant: the release removes the lease document instead of ageing it.
ReleaseUpdateOk_deletes(p) ==
    /\ lproc[p].pc = "release_write"
    /\ leaders' = [id \in (DOMAIN leaders) \ {lproc[p].policyId} |-> leaders[id]]
    /\ lproc' = [lproc EXCEPT ![p] = [Return(p, "nil", "nil") EXCEPT !.issued = @ + 1]]
    /\ UNCHANGED <<now, calls, enrollVars>>

\* bulker.Update(ctx, FleetPoliciesLeader, policyId, {"doc": l}) succeeded. The
\* call passes no expected version, so the store applies it to whatever the
\* document holds by now.
ReleaseUpdateOk(p) ==
    /\ lproc[p].pc = "release_write"
    /\ leaders' = StoreUpdate(leaders, lproc[p].policyId, MarshalLeader(lproc[p].l))
    /\ lproc' = [lproc EXCEPT ![p] = [Return(p, "nil", ReleaseResult("nil")) EXCEPT !.issued = @ + 1]]
    /\ UNCHANGED <<now, calls, enrollVars>>

\* The update raced with another write to the document and the store reported
\* a version conflict: nothing was written.
ReleaseUpdateConflict(p) ==
    /\ lproc[p].pc = "release_write"
    /\ leaders[lproc[p].policyId].seq # lproc[p].seen
    /\ lproc' = [lproc EXCEPT ![p] =
                    [Return(p, "ErrElasticVersionConflict", ReleaseResult("ErrElasticVersionConflict"))
                        EXCEPT !.issued = @ + 1]]
    /\ UNCHANGED <<now, leaders, calls, enrollVars>>

\* The update failed for another reason; nothing was written.
ReleaseUpdateFail(p) ==
    /\ lproc[p].pc = "release_write"
    /\ lproc' = [lproc EXCEPT ![p] =
                    [Return(p, "ErrStore", ReleaseResult("ErrStore")) EXCEPT !.issued = @ + 1]]
    /\ UNCHANGED <<now, leaders, calls, enrollVars>>

\* ---- the clock
Tick ==
    /\ now < MaxTicks * ClockStep
    /\ now' = now + ClockStep
    /\ UNCHANGED <<leaseVars, enrollVars>>


\* ============================================================ enrollment
\* The limiter is configured to admit 1..MaxEnrollLimit enrollments at a time.
MaxEnrollLimit == 2

EnrollKeyIds == {"k1", "k2"}
\* The identifiers uuid.NewV4 may return, and those the issuer may assign.
Uuids == {"u1", "u2"}
AccessKeyIds == {"a1", "a2"}
EnrollTypes == {"EPHEMERAL", "PERMANENT", "TEMPORARY", "BOGUS"}
SharedIds == {"", "install-1"}

\* ---- JSON values
\* A JSON value is a record tagged with its kind; a json.RawMessage is a
\* sequence of at most one value, empty for nil.
JNull == [k |-> "null"]
JStr(x) == [k |-> "str", s |-> x]
JArr == [k |-> "arr"]
JObj(m) == [k |-> "obj", m |-> m]
Nil == << >>

\* A JSON number is a non-negative integer below 2^54, written hi * Word + lo
\* with 0 <= lo < Word, so that its 54 bits fit the integers of the checker.
Word == 1073741824
JNum(hi, lo) == [k |-> "num", hi |-> hi, lo |-> lo]
\* hi of 2^53: from there on a float64, with its 53 bits of mantissa, holds
\* the even integers only.
Mantissa == 8388608

Field1(a, x) == [f \in {a} |-> x]
Field2(a, x, b, y) == [f \in {a, b} |-> IF f = a THEN x ELSE y]

\* The local metadata an agent sends: elastic.agent.id with siblings.
LocalWithId ==
    JObj(Field2("elastic",
                JObj(Field1("agent", JObj(Field2("id", JStr("OLD"), "version", JStr("8.0.0"))))),
                "host", JObj(Field1("id", JStr("OLD")))))
LocalWithoutId == JObj(Field1("host", JObj(Field1("id", JStr("OLD")))))
\* elastic.agent.id beside numbers: 3 and 9007199254740993 = 2^53 + 1.
LocalWithNumbers ==
    JObj(Field2("elastic", JObj(Field1("agent", JObj(Field1("id", JStr("OLD"))))),
                "host", JObj(Field2("cpus", JNum(0, 3), "inode", JNum(Mantissa, 1)))))
UserMetas == {Nil, <<JObj(Field1("tag", JStr("t")))>>}
LocalMetas ==
    {Nil, <<JNull>>, <<LocalWithId>>, <<LocalWithoutId>>, <<LocalWithNumbers>>, <<JArr>>}

\* The request bodies: one that is no JSON, and the EnrollRequest documents.
Body(t, sh, u, lm) ==
    [json |-> TRUE, Type |-> t, SharedId |-> sh, Meta |-> [User |-> u, Local |-> lm]]

\* Local metadata in which a node on the way to elastic.agent.id is no
\* object: elastic is a string, agent is an array.
ElasticNotObject ==
    JObj(Field2("elastic", JStr("x"), "host", JObj(Field1("id", JStr("OLD")))))
AgentNotObject == JObj(Field1("elastic", JObj(Field1("agent", JArr))))
MisshapenLocalMetas == {<<ElasticNotObject>>, <<AgentNotObject>>}

EnrollBodies ==
    {[json |-> FALSE]} \cup
    {Body(t, sh, u, lm) :
        t \in EnrollTypes, sh \in SharedIds, u \in UserMetas, lm \in LocalMetas} \cup
    {Body("PERMANENT", "", Nil, lm) : lm \in MisshapenLocalMetas}

\* The bodies a unit of work may receive: r1 any of them, r2, which is there
\* to run beside r1, one of a few.
BodiesOf(p) ==
    IF p = "r1" THEN EnrollBodies
    ELSE {[json |-> FALSE],
          Body("BOGUS", "", Nil, Nil),
          Body("PERMANENT", "", Nil, Nil),
          Body("EPHEMERAL", "", <<JObj(Field1("tag", JStr("t")))>>, <<LocalWithId>>)}

\* ---- updateLocalMetaAgentId
\* v is a map[string]interface{} holding key x.
IsMapWith(v, x) == v.k = "obj" /\ x \in DOMAIN v.m

\* json.Unmarshal(data, &m) with m a map[string]interface{} accepts an object
\* and null (m stays nil); anything else is an error.
UnmarshalsToMap(v) == v.k \in {"obj", "null"}

\* The float64 json.Unmarshal stores for the number hi * Word + lo when the
\* target is an interface{}: the number itself below 2^53, the nearest even
\* integer from there on, a tie going to the even mantissa.
Float64(hi, lo) ==
    IF hi < Mantissa \/ lo % 2 = 0 THEN JNum(hi, lo)
    ELSE IF ((lo - 1) \div 2) % 2 = 0 THEN JNum(hi, lo - 1)
    ELSE IF lo + 1 = Word THEN JNum(hi + 1, 0)
    ELSE JNum(hi, lo + 1)

\* The value json.Unmarshal builds in a map[string]interface{} for v, which
\* json.Marshal writes back: objects become maps, numbers float64.
RECURSIVE ToInterface(_)
ToInterface(v) ==
    IF v.k = "obj" THEN JObj([x \in DOMAIN v.m |-> ToInterface(v.m[x])])
    ELSE IF v.k = "num" THEN Float64(v.hi, v.lo)
    ELSE v

\* m has elastic.agent.id, every node on the way being a map.
HasAgentIdPath(v) ==
    /\ IsMapWith(v, "elastic")
    /\ IsMapWith(v.m["elastic"], "agent")
    /\ IsMapWith(v.m["elastic"].m["agent"], "id")

\* sm["id"] = agentId, in place.
SetAgentId(v, agentId) ==
    JObj([v.m EXCEPT !["elastic"] =
            JObj([@.m EXCEPT !["agent"] =
                    JObj([@.m EXCEPT !["id"] = JStr(agentId)])])])

\* Mutant: metadata without the path elastic.agent.id is an error.
updateLocalMetaAgentId_strict(data, agentId) ==
    IF data = Nil THEN [data |-> data, err |-> "nil"]
    ELSE IF ~UnmarshalsToMap(data[1]) THEN [data |-> Nil, err |-> "ErrUnmarshal"]
    ELSE IF HasAgentIdPath(data[1])
         THEN [data |-> <<SetAgentId(ToInterface(data[1]), agentId)>>, err |-> "nil"]
         ELSE [data |-> Nil, err |-> "ErrUnmarshal"]

\* The result: the bytes and the error.
updateLocalMetaAgentId(data, agentId) ==
    IF data = Nil THEN [data |-> data, err |-> "nil"]
    ELSE IF ~UnmarshalsToMap(data[1]) THEN [data |-> Nil, err |-> "ErrUnmarshal"]
    ELSE IF HasAgentIdPath(data[1])
         THEN [data |-> <<SetAgentId(ToInterface(data[1]), agentId)>>, err |-> "nil"]
         ELSE [data |-> data, err |-> "nil"]

\* Mutant: the validation of the type is left out.
decodeEnrollRequest_anyType(body) == IF ~body.json THEN "ErrJson" ELSE "nil"

\* Mutant: a body that is no JSON is answered like an unknown type.
decodeEnrollRequest_jsonAsUnknown(body) ==
    IF body.json /\ body.Type \in {"EPHEMERAL", "PERMANENT", "TEMPORARY"} THEN "nil"
    ELSE "ErrUnknownEnrollType"

\* ---- decodeEnrollRequest
\* The error of decoding body, "nil" when it is a request of a known type.
decodeEnrollRequest(body) ==
    IF ~body.json THEN "ErrJson"
    ELSE IF body.Type \in {"EPHEMERAL", "PERMANENT", "TEMPORARY"} THEN "nil"
    ELSE "ErrUnknownEnrollType"

\* ---- collaborators, as described: limiter, cache, issuer
\* limit.Acquire succeeds while a slot is free.
LimiterFree == held < limit

\* cache.GetEnrollmentApiKey(id): the entry, while its TTL has not run out.
CacheHasEnrollmentKey(id) == id \in DOMAIN ecache /\ now < ecache[id].expires

\* cache.SetEnrollmentApiKey(id, rec, cost, ttl)
CacheSetEnrollmentKey(id, rec, ttl) ==
    [x \in (DOMAIN ecache) \cup {id} |->
        IF x = id THEN [rec |-> rec, expires |-> now + ttl] ELSE ecache[x]]

\* cache.SetApiKey(key, ttl)
CacheSetApiKey(key, ttl) ==
    [x \in (DOMAIN acache) \cup {key.Id} |->
        IF x = key.Id THEN [key |-> key, expires |-> now + ttl] ELSE acache[x]]

\* accessApiKey.Token()
Token(key) == <<key.Id, key.Key>>

\* ---- _enroll
\* agentData := model.Agent{...}; the fields the literal leaves out are zero.
AgentData(req, erec, enrolledAt, localMeta, accessApiKey) ==
    [Active |-> TRUE,
     PolicyId |-> erec.PolicyId,
     Type |-> req.Type,
     EnrolledAt |-> enrolledAt,
     UserProvidedMetadata |-> Nil,
     LocalMetadata |-> localMeta,
     AccessApiKeyId |-> accessApiKey.Id,
     ActionSeqNo |-> <<-1>>]

\* json.Marshal(agent), the document createFleetAgent stores.
MarshalAgent(agent) ==
    [active |-> agent.Active,
     policy_id |-> agent.PolicyId,
     type |-> agent.Type,
     enrolled_at |-> agent.EnrolledAt,
     user_provided_metadata |-> agent.UserProvidedMetadata,
     local_metadata |-> agent.LocalMetadata,
     access_api_key_id |-> agent.AccessApiKeyId,
     action_seq_no |-> agent.ActionSeqNo]

\* Mutant: the item id is taken from the access key instead of the agent id.
EnrollResponseOf_keyId(agentId, agentData, accessApiKey) ==
    [Action |-> "created",
     Item |-> [ID |-> agentData.AccessApiKeyId,
               Active |-> agentData.Active,
               PolicyId |-> agentData.PolicyId,
               Type |-> agentData.Type,
               EnrolledAt |-> agentData.EnrolledAt,
               UserMeta |-> agentData.UserProvidedMetadata,
               LocalMeta |-> agentData.LocalMetadata,
               AccessApiKeyId |-> agentData.AccessApiKeyId,
               AccessAPIKey |-> Token(accessApiKey),
               Status |-> "online"]]

\* resp := EnrollResponse{...}
EnrollResponseOf(agentId, agentData, accessApiKey) ==
    [Action |-> "created",
     Item |-> [ID |-> agentId,
               Active |-> agentData.Active,
               PolicyId |-> agentData.PolicyId,
               Type |-> agentData.Type,
               EnrolledAt |-> agentData.EnrolledAt,
               UserMeta |-> agentData.UserProvidedMetadata,
               LocalMeta |-> agentData.LocalMetadata,
               AccessApiKeyId |-> agentData.AccessApiKeyId,
               AccessAPIKey |-> Token(accessApiKey),
               Status |-> "online"]]

\* ---- EnrollerT.handleEnroll, step by step
\* The locals of one enrollment. err is "" while it runs, "nil" when it
\* returned a response, the error otherwise. slot: it holds a limiter slot.
\* reads counts its reads of the enrollment key index.
IdleEnroll ==
    [pc |-> "idle", slot |-> FALSE, keyId |-> "", erec |-> Nil, fromCache |-> FALSE,
     reads |-> 0, req |-> Nil, enrolledAt |-> 0, agentId |-> "", accessApiKey |-> Nil,
     agentData |-> Nil, resp |-> Nil, err |-> ""]

\* The enrollment returns err; the deferred limitF() gives the slot back.
Fail(p, err) == [eproc[p] EXCEPT !.pc = "done", !.err = err, !.slot = FALSE]

\* et.limit.Acquire() fails: the limiter is saturated.
AcquireFail(p) ==
    /\ eproc[p].pc = "idle"
    /\ ~LimiterFree
    /\ eproc' = [eproc EXCEPT ![p] = [@ EXCEPT !.pc = "done", !.err = "ErrMaxLimit"]]
    /\ UNCHANGED <<now, leaseVars, limit, held, ekeys, ecache, acache, apikeys, agents>>

\* Mutant: the slot is handed out whether or not one is free.
Acquire_ignoresLimit(p) ==
    /\ eproc[p].pc = "idle"
    /\ held' = held + 1
    /\ eproc' = [eproc EXCEPT ![p] = [@ EXCEPT !.pc = "auth", !.slot = TRUE]]
    /\ UNCHANGED <<now, leaseVars, limit, ekeys, ecache, acache, apikeys, agents>>

\* et.limit.Acquire() succeeds.
Acquire(p) ==
    /\ eproc[p].pc = "idle"
    /\ LimiterFree
    /\ held' = held + 1
    /\ eproc' = [eproc EXCEPT ![p] = [@ EXCEPT !.pc = "auth", !.slot = TRUE]]
    /\ UNCHANGED <<now, leaseVars, limit, ekeys, ecache, acache, apikeys, agents>>

\* authApiKey fails, or validateUserAgent does.
AuthFail(p) ==
    /\ eproc[p].pc = "auth"
    /\ \E e \in {"ErrAuth", "ErrUserAgent"} : eproc' = [eproc EXCEPT ![p] = Fail(p, e)]
    /\ held' = held - 1
    /\ UNCHANGED <<now, leaseVars, limit, ekeys, ecache, acache, apikeys, agents>>

\* authApiKey returns the key of the request, the user agent is accepted, and
\* the cache has the enrollment key: fetchEnrollmentKeyRecord returns it.
AuthCacheHit(p) ==
    /\ eproc[p].pc = "auth"
    /\ \E id \in EnrollKeyIds :
          /\ CacheHasEnrollmentKey(id)
          /\ eproc' = [eproc EXCEPT ![p] =
                          [@ EXCEPT !.pc = "decode", !.keyId = id, !.fromCache = TRUE,
                                    !.erec = <<ecache[id].rec>>]]
    /\ UNCHANGED <<now, leaseVars, limit, held, ekeys, ecache, acache, apikeys, agents>>

\* Mutant: the record is asked of the store whatever the cache holds.
AuthCacheMiss_always(p) ==
    /\ eproc[p].pc = "auth"
    /\ \E id \in EnrollKeyIds :
          eproc' = [eproc EXCEPT ![p] = [@ EXCEPT !.pc = "find", !.keyId = id]]
    /\ UNCHANGED <<now, leaseVars, limit, held, ekeys, ecache, acache, apikeys, agents>>

\* As above, and the cache has no entry: the record is asked of the store.
AuthCacheMiss(p) ==
    /\ eproc[p].pc = "auth"
    /\ \E id \in EnrollKeyIds :
          /\ ~CacheHasEnrollmentKey(id)
          /\ eproc' = [eproc EXCEPT ![p] = [@ EXCEPT !.pc = "find", !.keyId = id]]
    /\ UNCHANGED <<now, leaseVars, limit, held, ekeys, ecache, acache, apikeys, agents>>

\* dl.FindEnrollmentAPIKey fails: no such record, or the store failed.
FindFail(p) ==
    /\ eproc[p].pc = "find"
    /\ eproc' = [eproc EXCEPT ![p] = [Fail(p, "ErrStore") EXCEPT !.reads = @ + 1]]
    /\ held' = held - 1
    /\ UNCHANGED <<now, leaseVars, limit, ekeys, ecache, acache, apikeys, agents>>

\* dl.FindEnrollmentAPIKey returns a record that is not active.
FindInactive(p) ==
    /\ eproc[p].pc = "find"
    /\ eproc[p].keyId \in DOMAIN ekeys
    /\ ~ekeys[eproc[p].keyId].Active
    /\ eproc' = [eproc EXCEPT ![p] = [Fail(p, "ErrInactive") EXCEPT !.reads = @ + 1]]
    /\ held' = held - 1
    /\ UNCHANGED <<now, leaseVars, limit, ekeys, ecache, acache, apikeys, agents>>

\* Mutant: the record found is cached and returned whether or not it is active.
FindActive_anyRecord(p) ==
    /\ eproc[p].pc = "find"
    /\ eproc[p].keyId \in DOMAIN ekeys
    /\ ecache' = CacheSetEnrollmentKey(eproc[p].keyId, ekeys[eproc[p].keyId], kCacheEnrollmentTTL)
    /\ eproc' = [eproc EXCEPT ![p] =
                    [@ EXCEPT !.pc = "decode", !.reads = @ + 1,
                              !.erec = <<ekeys[eproc[p].keyId]>>]]
    /\ UNCHANGED <<now, leaseVars, limit, held, ekeys, acache, apikeys, agents>>

\* dl.FindEnrollmentAPIKey returns an active record: it is cached and returned.
FindActive(p) ==
    /\ eproc[p].pc = "find"
    /\ eproc[p].keyId \in DOMAIN ekeys
    /\ ekeys[eproc[p].keyId].Active
    /\ ecache' = CacheSetEnrollmentKey(eproc[p].keyId, ekeys[eproc[p].keyId], kCacheEnrollmentTTL)
    /\ eproc' = [eproc EXCEPT ![p] =
                    [@ EXCEPT !.pc = "decode", !.reads = @ + 1,
                              !.erec = <<ekeys[eproc[p].keyId]>>]]
    /\ UNCHANGED <<now, leaseVars, limit, held, ekeys, acache, apikeys, agents>>

\* Mutant: the early return of a rejected body does not give the slot back.
DecodeFail_keepsSlot(p) ==
    /\ eproc[p].pc = "decode"
    /\ \E body \in BodiesOf(p) :
          /\ decodeEnrollRequest(body) # "nil"
          /\ eproc' = [eproc EXCEPT ![p] =
                          [Fail(p, decodeEnrollRequest(body)) EXCEPT !.req = <<body>>]]
    /\ UNCHANGED <<now, leaseVars, limit, held, ekeys, ecache, acache, apikeys, agents>>

\* decodeEnrollRequest rejects the body.
DecodeFail(p) ==
    /\ eproc[p].pc = "decode"
    /\ \E body \in BodiesOf(p) :
          /\ decodeEnrollRequest(body) # "nil"
          /\ eproc' = [eproc EXCEPT ![p] =
                          [Fail(p, decodeEnrollRequest(body)) EXCEPT !.req = <<body>>]]
    /\ held' = held - 1
    /\ UNCHANGED <<now, leaseVars, limit, ekeys, ecache, acache, apikeys, agents>>

\* _enroll: req.SharedId is not empty.
SharedIdRejected(p) ==
    /\ eproc[p].pc = "decode"
    /\ \E body \in BodiesOf(p) :
          /\ decodeEnrollRequest(body) = "nil"
          /\ body.SharedId # ""
          /\ eproc' = [eproc EXCEPT ![p] =
                          [Fail(p, "ErrPreexisting") EXCEPT !.req = <<body>>]]
    /\ held' = held - 1
    /\ UNCHANGED <<now, leaseVars, limit, ekeys, ecache, acache, apikeys, agents>>

\* _enroll: uuid.NewV4() fails.
UuidFail(p) ==
    /\ eproc[p].pc = "decode"
    /\ \E body \in BodiesOf(p) :
          /\ decodeEnrollRequest(body) = "nil"
          /\ body.SharedId = ""
          /\ eproc' = [eproc EXCEPT ![p] =
                          [Fail(p, "ErrUuid") EXCEPT !.req = <<body>>, !.enrolledAt = now]]
    /\ held' = held - 1
    /\ UNCHANGED <<now, leaseVars, limit, ekeys, ecache, acache, apikeys, agents>>

\* The identifiers handed out so far.
UsedUuids == {eproc[q].agentId : q \in Procs}
UsedAccessKeyIds == {k.Id : k \in apikeys}

\* Mutant: _enroll goes on whatever the shared id.
DecodeOk_anySharedId(p) ==
    /\ eproc[p].pc = "decode"
    /\ \E body \in BodiesOf(p), u \in Uuids \ UsedUuids :
          /\ decodeEnrollRequest(body) = "nil"
          /\ eproc' = [eproc EXCEPT ![p] =
                          [@ EXCEPT !.pc = "mint", !.req = <<body>>, !.enrolledAt = now,
                                    !.agentId = u]]
    /\ UNCHANGED <<now, leaseVars, limit, held, ekeys, ecache, acache, apikeys, agents>>

\* The body decodes, _enroll starts: now is read and the agent id generated.
DecodeOk(p) ==
    /\ eproc[p].pc = "decode"
    /\ \E body \in BodiesOf(p), u \in Uuids \ UsedUuids :
          /\ decodeEnrollRequest(body) = "nil"
          /\ body.SharedId = ""
          /\ eproc' = [eproc EXCEPT ![p] =
                          [@ EXCEPT !.pc = "mint", !.req = <<body>>, !.enrolledAt = now,
                                    !.agentId = u]]
    /\ UNCHANGED <<now, leaseVars, limit, held, ekeys, ecache, acache, apikeys, agents>>

\* generateAccessApiKey fails: no key exists.
MintFail(p) ==
    /\ eproc[p].pc = "mint"
    /\ eproc' = [eproc EXCEPT ![p] = Fail(p, "ErrApiKey")]
    /\ held' = held - 1
    /\ UNCHANGED <<now, leaseVars, limit, ekeys, ecache, acache, apikeys, agents>>

\* Mutant: the key minted is revoked when the patch of the metadata fails.
MintPatchFail_revokes(p) ==
    /\ eproc[p].pc = "mint"
    /\ \E a \in AccessKeyIds \ UsedAccessKeyIds :
          LET key == [Id |-> a, Key |-> "secret", AgentId |-> eproc[p].agentId]
              patched == updateLocalMetaAgentId(eproc[p].req[1].Meta.Local, eproc[p].agentId)
          IN /\ patched.err # "nil"
             /\ eproc' = [eproc EXCEPT ![p] =
                             [Fail(p, patched.err) EXCEPT !.accessApiKey = <<key>>]]
    /\ held' = held - 1
    /\ UNCHANGED <<now, leaseVars, limit, ekeys, ecache, acache, apikeys, agents>>

\* generateAccessApiKey returns a key for the agent id; updateLocalMetaAgentId
\* then fails, and _enroll returns its error.
MintPatchFail(p) ==
    /\ eproc[p].pc = "mint"
    /\ \E a \in AccessKeyIds \ UsedAccessKeyIds :
          LET key == [Id |-> a, Key |-> "secret", AgentId |-> eproc[p].agentId]
              patched == updateLocalMetaAgentId(eproc[p].req[1].Meta.Local, eproc[p].agentId)
          IN /\ patched.err # "nil"
             /\ apikeys' = apikeys \cup {key}
             /\ eproc' = [eproc EXCEPT ![p] =
                             [Fail(p, patched.err) EXCEPT !.accessApiKey = <<key>>]]
    /\ held' = held - 1
    /\ UNCHANGED <<now, leaseVars, limit, ekeys, ecache, acache, agents>>

\* Mutant: the access key is cached as soon as it is minted.
MintOk_cachesKey(p) ==
    /\ eproc[p].pc = "mint"
    /\ \E a \in AccessKeyIds \ UsedAccessKeyIds :
          LET c == eproc[p]
              key == [Id |-> a, Key |-> "secret", AgentId |-> c.agentId]
              patched == updateLocalMetaAgentId(c.req[1].Meta.Local, c.agentId)
          IN /\ patched.err = "nil"
             /\ apikeys' = apikeys \cup {key}
             /\ acache' = CacheSetApiKey(key, kCacheAccessInitTTL)
             /\ eproc' = [eproc EXCEPT ![p] =
                             [c EXCEPT !.pc = "create", !.accessApiKey = <<key>>,
                                       !.agentData =
                                           <<AgentData(c.req[1], c.erec[1], c.enrolledAt,
                                                       patched.data, key)>>]]
    /\ UNCHANGED <<now, leaseVars, limit, held, ekeys, ecache, agents>>

\* generateAccessApiKey returns a key for the agent id, the local metadata is
\* patched and agentData is built.
MintOk(p) ==
    /\ eproc[p].pc = "mint"
    /\ \E a \in AccessKeyIds \ UsedAccessKeyIds :
          LET c == eproc[p]
              key == [Id |-> a, Key |-> "secret", AgentId |-> c.agentId]
              patched == updateLocalMetaAgentId(c.req[1].Meta.Local, c.agentId)
          IN /\ patched.err = "nil"
             /\ apikeys' = apikeys \cup {key}
             /\ eproc' = [eproc EXCEPT ![p] =
                             [c EXCEPT !.pc = "create", !.accessApiKey = <<key>>,
                                       !.agentData =
                                           <<AgentData(c.req[1], c.erec[1], c.enrolledAt,
                                                       patched.data, key)>>]]
    /\ UNCHANGED <<now, leaseVars, limit, held, ekeys, ecache, acache, agents>>

\* Mutant: the failed create leaves the agent document behind.
CreateFail_leavesRecord(p) ==
    /\ eproc[p].pc = "create"
    /\ agents' = [x \in (DOMAIN agents) \cup {eproc[p].agentId} |->
                     IF x = eproc[p].agentId THEN MarshalAgent(eproc[p].agentData[1])
                     ELSE agents[x]]
    /\ eproc' = [eproc EXCEPT ![p] = Fail(p, "ErrCreate")]
    /\ held' = held - 1
    /\ UNCHANGED <<now, leaseVars, limit, ekeys, ecache, acache, apikeys>>

\* createFleetAgent fails: no agent document is written.
CreateFail(p) ==
    /\ eproc[p].pc = "create"
    /\ eproc' = [eproc EXCEPT ![p] = Fail(p, "ErrCreate")]
    /\ held' = held - 1
    /\ UNCHANGED <<now, leaseVars, limit, ekeys, ecache, acache, apikeys, agents>>

\* Mutant: a successful enrollment uses up its enrollment key.
CreateOk_consumesKey(p) ==
    /\ eproc[p].pc = "create"
    /\ eproc[p].agentId \notin DOMAIN agents
    /\ LET c == eproc[p]
       IN /\ agents' = [x \in (DOMAIN agents) \cup {c.agentId} |->
                           IF x = c.agentId THEN MarshalAgent(c.agentData[1]) ELSE agents[x]]
          /\ acache' = CacheSetApiKey(c.accessApiKey[1], kCacheAccessInitTTL)
          /\ ekeys' = [ekeys EXCEPT ![c.keyId].Active = FALSE]
          /\ eproc' = [eproc EXCEPT ![p] =
                          [Fail(p, "nil") EXCEPT
                              !.resp = <<EnrollResponseOf(c.agentId, c.agentData[1],
                                                          c.accessApiKey[1])>>]]
    /\ held' = held - 1
    /\ UNCHANGED <<now, leaseVars, limit, ecache, apikeys>>

\* createFleetAgent creates the document; the response is built, the access
\* key cached, the response returned.
CreateOk(p) ==
    /\ eproc[p].pc = "create"
    /\ eproc[p].agentId \notin DOMAIN agents
    /\ LET c == eproc[p]
       IN /\ agents' = [x \in (DOMAIN agents) \cup {c.agentId} |->
                           IF x = c.agentId THEN MarshalAgent(c.agentData[1]) ELSE agents[x]]
          /\ acache' = CacheSetApiKey(c.accessApiKey[1], kCacheAccessInitTTL)
          /\ eproc' = [eproc EXCEPT ![p] =
                          [Fail(p, "nil") EXCEPT
                              !.resp = <<EnrollResponseOf(c.agentId, c.agentData[1],
                                                          c.accessApiKey[1])>>]]
    /\ held' = held - 1
    /\ UNCHANGED <<now, leaseVars, limit, ekeys, ecache, apikeys>>

\* Outside this core an enrollment key is revoked.
Deactivate ==
    /\ \E id \in DOMAIN ekeys :
          /\ ekeys[id].Active
          /\ ekeys' = [ekeys EXCEPT ![id].Active = FALSE]
    /\ UNCHANGED <<now, leaseVars, limit, held, ecache, acache, apikeys, agents, eproc>>

\* ---- the enrollment specification
\* An agent enrolled before the run.
OldAgent ==
    MarshalAgent([Active |-> TRUE, PolicyId |-> "p1", Type |-> "PERMANENT",
                  EnrolledAt |-> 0, UserProvidedMetadata |-> Nil, LocalMetadata |-> Nil,
                  AccessApiKeyId |-> "a0", ActionSeqNo |-> <<-1>>])

EnrollKey(id, policy, active) == [Id |-> id, PolicyId |-> policy, Active |-> active]

NoEnrollment ==
    /\ limit = 1
    /\ held = 0
    /\ ekeys = EmptyStruct
    /\ ecache = EmptyStruct
    /\ acache = EmptyStruct
    /\ apikeys = {}
    /\ agents = EmptyStruct
    /\ eproc = [p \in Procs |-> IdleEnroll]

NoLeaseCall ==
    /\ leaders = EmptyStruct
    /\ calls = 0
    /\ lproc = [p \in Procs |-> IdleCall]

EnrollInit ==
    /\ now = 0
    /\ NoLeaseCall
    /\ limit \in 1..MaxEnrollLimit
    /\ held = 0
    /\ ekeys = Field2("k1", EnrollKey("k1", "p1", TRUE), "k2", EnrollKey("k2", "p2", FALSE))
    /\ ecache = EmptyStruct
    /\ acache = EmptyStruct
    /\ apikeys = {}
    /\ agents = Field1("u0", OldAgent)
    /\ eproc = [p \in Procs |-> IdleEnroll]

EnrollNext ==
    \/ Tick
    \/ Deactivate
    \/ \E p \in Procs :
        \/ AcquireFail(p) \/ Acquire(p)
        \/ AuthFail(p) \/ AuthCacheHit(p) \/ AuthCacheMiss(p)
        \/ FindFail(p) \/ FindInactive(p) \/ FindActive(p)
        \/ DecodeFail(p) \/ SharedIdRejected(p) \/ UuidFail(p) \/ DecodeOk(p)
        \/ MintFail(p) \/ MintPatchFail(p) \/ MintOk(p)
        \/ CreateFail(p) \/ CreateOk(p)

EnrollSpec == EnrollInit /\ [][EnrollNext]_vars

\* ---- the lease specification
\* The lease documents that may predate the run: one without a server identity
\* (the case TakePolicyLeadership allocates l.Server for) and one claimed by
\* srvA earlier.
InitialLeases ==
    { [seq |-> 1, src |-> [x \in {"@timestamp"} |-> 0]],
      [seq |-> 1, src |-> MarshalLeader(ClaimedLeader(EmptyStruct, "srvA", "v1", 0))] }

LeaseInit ==
    /\ now = 0
    /\ NoEnrollment
    /\ \E S \in SUBSET Policies : leaders \in [S -> InitialLeases]
    /\ calls = 0
    /\ lproc = [p \in Procs |-> IdleCall]

LeaseNext ==
    \/ Tick
    \/ \E p \in Procs :
        \/ StartTake(p) \/ StartRelease(p) \/ StartSearch(p)
        \/ SearchOk(p) \/ SearchFail(p)
        \/ TakeReadFail(p) \/ TakeReadOk(p)
        \/ TakeUpdateOk(p) \/ TakeCreateOk(p) \/ TakeWriteConflict(p) \/ TakeWriteFail(p)
        \/ ReleaseNotFound(p) \/ ReleaseReadFail(p) \/ ReleaseNilServer(p)
        \/ ReleaseNotLeader(p) \/ ReleaseRead(p)
        \/ ReleaseUpdateOk(p) \/ ReleaseUpdateConflict(p) \/ ReleaseUpdateFail(p)

LeaseSpec == LeaseInit /\ [][LeaseNext]_vars

\* ================================================================ claims
\* p took a step of its call.
Stepped(p) == lproc'[p] # lproc[p]

\* The stored lease of pol identifies server s.
Identifies(index, pol, s) ==
    /\ Exists(index, pol)
    /\ Has(index[pol].src, "server")
    /\ index[pol].src["server"].id = s

\* The stored lease of pol identifies some server other than s.
IdentifiesOther(index, pol, s) ==
    /\ Exists(index, pol)
    /\ Has(index[pol].src, "server")
    /\ index[pol].src["server"].id # s

\* C1: a release whose read finds the lease of the policy identifying another
\* server returns success in that step, has sent no write, and leaves the whole
\* index, hence the lease (server id, server version, time), as it was.
C1_ReleaseByNonLeaderIsNoOp ==
    [][\A p \in Procs :
          ( /\ lproc[p].pc = "release_read"
            /\ Stepped(p)
            /\ lproc'[p].err # "ErrStore"
            /\ IdentifiesOther(leaders, lproc[p].policyId, lproc[p].serverId) )
          => /\ lproc'[p].pc = "done"
             /\ lproc'[p].ret = "nil"
             /\ lproc'[p].issued = 0
             /\ leaders' = leaders]_vars

C1_Witness ==
    \E p \in Procs :
        /\ lproc[p].pc = "done" /\ lproc[p].op = "release"
        /\ lproc[p].ret = "nil" /\ lproc[p].issued = 0
        /\ Has(lproc[p].l, "Server")
        /\ lproc[p].l["Server"].Id = "srvB" /\ lproc[p].serverId = "srvA"
        /\ Identifies(leaders, lproc[p].policyId, "srvB")

\* C2: a release whose read finds the lease identifying the caller prepares the
\* lease with time = now - releaseInterval and the server identity as read, and
\* sends it as an update. When the update succeeds the stored lease carries that
\* time and that identity (the identity the document had, unless the document
\* was written in between) and the release returns success; when the update
\* reports a version conflict the release returns success too; any other
\* failure of the update is returned as the error.
C2_ReleaseByLeader ==
    [][\A p \in Procs :
          LET c == lproc[p]
              d == lproc'[p]
              pol == c.policyId
          IN /\ ( /\ c.pc = "release_read" /\ Stepped(p) /\ d.err # "ErrStore"
                  /\ Identifies(leaders, pol, c.serverId) )
                => /\ d.pc = "release_write"
                   /\ d.l["Timestamp"] = now - c.releaseInterval
                   /\ d.l["Server"].Id = leaders[pol].src["server"].id
                   /\ d.l["Server"].Version = leaders[pol].src["server"].version
                   /\ leaders' = leaders
             /\ (c.pc = "release_write" /\ Stepped(p))
                => /\ d.pc = "done"
                   /\ d.issued = 1
                   /\ d.err = "nil"
                      => /\ d.ret = "nil"
                         /\ leaders'[pol].src["@timestamp"] = c.l["Timestamp"]
                         /\ leaders'[pol].src["server"].id = c.serverId
                         /\ leaders'[pol].src["server"].version = c.l["Server"].Version
                         /\ leaders[pol].seq = c.seen
                            => leaders'[pol].src["server"] = leaders[pol].src["server"]
                         /\ \A o \in DOMAIN leaders : o # pol => leaders'[o] = leaders[o]
                   /\ d.err = "ErrElasticVersionConflict"
                      => d.ret = "nil" /\ leaders' = leaders
                   /\ d.err \notin {"nil", "ErrElasticVersionConflict"}
                      => d.ret = d.err /\ d.ret # "nil"]_vars

C2_Witness ==
    \E p \in Procs :
        /\ lproc[p].pc = "done" /\ lproc[p].op = "release"
        /\ lproc[p].issued = 1 /\ lproc[p].err = "nil" /\ lproc[p].ret = "nil"
        /\ Identifies(leaders, lproc[p].policyId, lproc[p].serverId)
        /\ leaders[lproc[p].policyId].src["@timestamp"] = lproc[p].l["Timestamp"]
        /\ leaders[lproc[p].policyId].src["@timestamp"] < 0

\* C3: a claim reads the lease, fills in the caller's id and version and the
\* current time, and writes it: with no lease at the read it creates the
\* document, with a lease it updates that document in place. Every claim that
\* returns success has, by its last step, made the stored lease exactly
\* {server id = s, version = v, time = the time it read the clock}; so after
\* non-overlapping successful claims the lease identifies the last caller.
C3_TakeWritesCallerLease ==
    [][\A p \in Procs :
          LET c == lproc[p]
              d == lproc'[p]
              pol == c.policyId
          IN /\ (c.pc = "take_read" /\ Stepped(p) /\ d.err # "ErrStore")
                => /\ d.pc = "take_write"
                   /\ d.found = Exists(leaders, pol)
                   /\ d.l["Timestamp"] = now
                   /\ leaders' = leaders
             /\ (c.pc = "take_write" /\ Stepped(p) /\ d.ret = "nil")
                => /\ d.pc = "done"
                   /\ Exists(leaders', pol)
                   /\ leaders'[pol].src["server"] = [id |-> c.serverId, version |-> c.version]
                   /\ leaders'[pol].src["@timestamp"] = c.l["Timestamp"]
                   /\ c.found <=> Exists(leaders, pol)
                   /\ c.found => leaders'[pol].seq = leaders[pol].seq + 1
                   /\ DOMAIN leaders' = (DOMAIN leaders) \cup {pol}
                   /\ \A o \in DOMAIN leaders : o # pol => leaders'[o] = leaders[o]]_vars

\* Two claims in a row on one policy, the second by srvB, both successful.
C3_Witness ==
    \E p, q \in Procs :
        /\ lproc[p].pc = "done" /\ lproc[p].op = "take" /\ lproc[p].ret = "nil"
        /\ lproc[q].pc = "done" /\ lproc[q].op = "take" /\ lproc[q].ret = "nil"
        /\ p # q
        /\ lproc[p].policyId = lproc[q].policyId
        /\ ~lproc[p].found /\ lproc[q].found
        /\ lproc[p].serverId = "srvA" /\ lproc[q].serverId = "srvB"
        /\ Identifies(leaders, lproc[q].policyId, "srvB")
        /\ leaders[lproc[q].policyId].seq = 2

\* C4 (as claimed): when the lease was written by another replica between the
\* read and the write of a release, so that it now identifies another server,
\* the release's write does not take effect: the lease stays as that replica
\* wrote it.
C4_ReleaseNeverOverwritesNewerLease ==
    [][\A p \in Procs :
          ( /\ lproc[p].pc = "release_write"
            /\ Stepped(p)
            /\ leaders[lproc[p].policyId].seq # lproc[p].seen
            /\ IdentifiesOther(leaders, lproc[p].policyId, lproc[p].serverId) )
          => leaders'[lproc[p].policyId] = leaders[lproc[p].policyId]]_vars

\* C5: a release whose read finds no lease document for the policy returns
\* success in that step, has sent no write, and leaves the index as it was:
\* there is still no lease for the policy.
C5_ReleaseOfMissingLease ==
    [][\A p \in Procs :
          ( /\ lproc[p].pc = "release_read"
            /\ Stepped(p)
            /\ lproc'[p].err # "ErrStore"
            /\ ~Exists(leaders, lproc[p].policyId) )
          => /\ lproc'[p].pc = "done"
             /\ lproc'[p].ret = "nil"
             /\ lproc'[p].issued = 0
             /\ leaders' = leaders
             /\ ~Exists(leaders', lproc[p].policyId)]_vars

C5_Witness ==
    \E p \in Procs :
        /\ lproc[p].pc = "done" /\ lproc[p].op = "release"
        /\ lproc[p].err = "ErrElasticNotFound" /\ lproc[p].ret = "nil"
        /\ lproc[p].issued = 0
        /\ ~Exists(leaders, lproc[p].policyId)

\* C6: no step removes a lease document: a policy that has one keeps one; and
\* the write of a release leaves the document with a time before the current
\* time (the release intervals are positive).
C6_LeaseNeverDeleted ==
    [][/\ \A pol \in Policies : Exists(leaders, pol) => Exists(leaders', pol)
       /\ \A p \in Procs :
             (lproc[p].pc = "release_write" /\ Stepped(p) /\ leaders' # leaders)
             => /\ Exists(leaders', lproc[p].policyId)
                /\ leaders'[lproc[p].policyId].src["@timestamp"] < now]_vars

\* A lease that was created by a claim and then released is still there.
C6_Witness ==
    \E p, q \in Procs :
        /\ lproc[p].pc = "done" /\ lproc[p].op = "take" /\ lproc[p].ret = "nil"
        /\ ~lproc[p].found
        /\ lproc[q].pc = "done" /\ lproc[q].op = "release" /\ lproc[q].ret = "nil"
        /\ lproc[q].issued = 1 /\ lproc[q].err = "nil"
        /\ lproc[q].policyId = lproc[p].policyId
        /\ Exists(leaders, lproc[p].policyId)
        /\ leaders[lproc[p].policyId].src["@timestamp"] < now

\* C7: a lookup whose search succeeds returns success and a map whose keys are
\* the requested ids that have a stored lease, each mapped to the server
\* identity and time of that lease; the ids without a lease are not keys; the
\* lookup sends no write and leaves the index as it was.
C7_LookupLeaders ==
    [][\A p \in Procs :
          (lproc[p].pc = "search" /\ Stepped(p) /\ lproc'[p].err = "nil")
          => LET ids == lproc[p].ids
                 out == lproc'[p].leaders
             IN /\ lproc'[p].pc = "done"
                /\ lproc'[p].ret = "nil"
                /\ lproc'[p].issued = 0
                /\ leaders' = leaders
                /\ DOMAIN out = ids \cap DOMAIN leaders
                /\ \A id \in DOMAIN out :
                      /\ Has(out[id], "Server") <=> Has(leaders[id].src, "server")
                      /\ Has(out[id], "Server") =>
                            /\ out[id]["Server"].Id = leaders[id].src["server"].id
                            /\ out[id]["Server"].Version = leaders[id].src["server"].version
                      /\ Has(out[id], "Timestamp")
                      /\ out[id]["Timestamp"] = leaders[id].src["@timestamp"]]_vars

\* A lookup of two ids of which exactly one has a lease, one that names a server.
C7_Witness ==
    \E p \in Procs :
        /\ lproc[p].pc = "done" /\ lproc[p].op = "search" /\ lproc[p].ret = "nil"
        /\ lproc[p].ids = Policies
        /\ Cardinality(DOMAIN lproc[p].leaders) = 1
        /\ \E id \in DOMAIN lproc[p].leaders : Has(lproc[p].leaders[id], "Server")
        /\ DOMAIN leaders = DOMAIN lproc[p].leaders

\* ---- enrollment claims
ValidTypes == {"EPHEMERAL", "PERMANENT", "TEMPORARY"}

\* The errors that come from a collaborator failing or refusing: the limiter,
\* authentication, the store, the uuid source, the credential issuer.
CollaboratorErrors ==
    {"ErrMaxLimit", "ErrAuth", "ErrUserAgent", "ErrStore", "ErrUuid", "ErrApiKey", "ErrCreate"}

\* p returned in this step.
Returned(p) == eproc[p].pc # "done" /\ eproc'[p].pc = "done"

\* The enrollment d read a well-formed request of a valid type, after its
\* enrollment key was resolved as active, and no collaborator failed.
ValidAndServed(d) ==
    /\ d.req # Nil
    /\ d.req[1].json
    /\ d.req[1].Type \in ValidTypes
    /\ d.erec # Nil /\ d.erec[1].Active
    /\ d.err \notin CollaboratorErrors

\* The enrollment d returned the "created"/"online" response for its agent id.
CreatedResponse(d) ==
    /\ d.err = "nil"
    /\ d.resp # Nil
    /\ d.resp[1].Action = "created"
    /\ d.resp[1].Item.Status = "online"
    /\ d.resp[1].Item.ID = d.agentId

\* The id in the response of d is new: it is not the enrollment key id, no
\* agent was stored under it before this step, and this step stores one.
FreshId(d) ==
    /\ d.resp[1].Item.ID # d.keyId
    /\ d.resp[1].Item.ID \notin EnrollKeyIds
    /\ d.resp[1].Item.ID \notin DOMAIN agents
    /\ d.resp[1].Item.ID \in DOMAIN agents'

\* C8 (as claimed): every request of a valid type, with an active enrollment
\* key and all collaborators succeeding, is answered with action "created",
\* status "online" and a fresh item id.
C8_ValidRequestIsEnrolled ==
    [][\A p \in Procs :
          (Returned(p) /\ ValidAndServed(eproc'[p]))
          => CreatedResponse(eproc'[p]) /\ FreshId(eproc'[p])]_vars

\* C8 (amended): every request of a valid type whose shared id is empty and
\* whose local metadata is absent, null or a JSON object, with an active
\* enrollment key and all collaborators succeeding, is answered with action
\* "created", status "online" and a fresh item id.
C8_AcceptableRequestIsEnrolled ==
    [][\A p \in Procs :
          ( /\ Returned(p)
            /\ ValidAndServed(eproc'[p])
            /\ eproc'[p].req[1].SharedId = ""
            /\ LET lm == eproc'[p].req[1].Meta.Local
               IN lm = Nil \/ lm[1].k \in {"obj", "null"} )
          => CreatedResponse(eproc'[p]) /\ FreshId(eproc'[p])]_vars

\* Both units of work enrolled, one of them with type TEMPORARY.
C8_Witness ==
    /\ \A p \in Procs : eproc[p].pc = "done" /\ eproc[p].err = "nil"
    /\ \E p \in Procs :
          /\ eproc[p].req[1].Type = "TEMPORARY"
          /\ eproc[p].resp[1].Item.Status = "online"
          /\ eproc[p].resp[1].Item.ID \in DOMAIN agents
    /\ Cardinality(DOMAIN agents) = 3

\* C9 (as claimed): the response and the stored agent of a successful
\* enrollment carry the user-provided metadata of the request and its local
\* metadata as patched with the agent id.
C9_BothMetadataCarried ==
    \A p \in Procs :
        (eproc[p].pc = "done" /\ eproc[p].err = "nil")
        => LET d == eproc[p]
               patched == updateLocalMetaAgentId(d.req[1].Meta.Local, d.agentId).data
           IN /\ d.resp[1].Item.UserMeta = d.req[1].Meta.User
              /\ d.resp[1].Item.LocalMeta = patched
              /\ agents[d.agentId].user_provided_metadata = d.req[1].Meta.User
              /\ agents[d.agentId].local_metadata = patched

\* C10: when the body read is a well-formed request whose type is none of
\* EPHEMERAL, PERMANENT, TEMPORARY, the enrollment returns in that step with
\* the unknown-enroll-type error: no agent id was generated, no access key
\* minted or cached, nothing written to the agent index.
C10_UnknownTypeRejected ==
    [][\A p \in Procs :
          ( /\ eproc[p].pc = "decode"
            /\ eproc'[p] # eproc[p]
            /\ eproc'[p].req[1].json
            /\ eproc'[p].req[1].Type \notin ValidTypes )
          => /\ eproc'[p].pc = "done"
             /\ eproc'[p].err = "ErrUnknownEnrollType"
             /\ eproc'[p].agentId = ""
             /\ eproc'[p].accessApiKey = Nil
             /\ eproc'[p].resp = Nil
             /\ apikeys' = apikeys
             /\ agents' = agents
             /\ acache' = acache]_vars

\* A request of type BOGUS with an empty shared id was rejected while the
\* other unit of work enrolled its agent.
C10_Witness ==
    \E p, q \in Procs :
        /\ eproc[p].pc = "done" /\ eproc[p].err = "ErrUnknownEnrollType"
        /\ eproc[p].req[1].Type = "BOGUS" /\ eproc[p].req[1].SharedId = ""
        /\ eproc[q].pc = "done" /\ eproc[q].err = "nil"
        /\ apikeys = {eproc[q].accessApiKey[1]}
        /\ DOMAIN agents = {"u0", eproc[q].agentId}

\* The enrollment p read its body in this step, and it was no JSON.
ReadMalformed(p) ==
    /\ eproc[p].pc = "decode"
    /\ eproc'[p] # eproc[p]
    /\ ~eproc'[p].req[1].json

\* The step minted no identity and wrote nothing.
NothingMinted(p) ==
    /\ eproc'[p].agentId = ""
    /\ eproc'[p].accessApiKey = Nil
    /\ eproc'[p].resp = Nil
    /\ apikeys' = apikeys
    /\ agents' = agents
    /\ acache' = acache

\* C11 (as claimed): a body that is malformed JSON is rejected in the step
\* that reads it with the unknown-enroll-type error, the error of an invalid
\* type, and no identity is minted.
C11_MalformedIsUnknownType ==
    [][\A p \in Procs :
          ReadMalformed(p)
          => /\ eproc'[p].pc = "done"
             /\ eproc'[p].err = "ErrUnknownEnrollType"
             /\ NothingMinted(p)]_vars

\* C11 (amended): a body that is malformed JSON is rejected in the step that
\* reads it with the error of the JSON decoder, which is not the
\* unknown-enroll-type error, and no identity is minted.
C11_MalformedIsDecoderError ==
    [][\A p \in Procs :
          ReadMalformed(p)
          => /\ eproc'[p].pc = "done"
             /\ eproc'[p].err = "ErrJson"
             /\ eproc'[p].err # "ErrUnknownEnrollType"
             /\ NothingMinted(p)]_vars

\* A malformed body was rejected, after its enrollment key was resolved, and
\* the other unit of work was rejected for its unknown type.
C11_Witness ==
    \E p, q \in Procs :
        /\ eproc[p].pc = "done" /\ eproc[p].req # Nil /\ ~eproc[p].req[1].json
        /\ eproc[p].err = "ErrJson" /\ eproc[p].erec # Nil
        /\ eproc[q].pc = "done" /\ eproc[q].err = "ErrUnknownEnrollType"
        /\ apikeys = {} /\ DOMAIN agents = {"u0"}

\* C12: a request with a non-empty shared id fails in the step that reads it,
\* whatever its type and metadata: the enrollment returns an error, no agent
\* id is generated, no access key minted or cached, no agent record written.
C12_SharedIdAlwaysFails ==
    [][\A p \in Procs :
          ( /\ eproc[p].pc = "decode"
            /\ eproc'[p] # eproc[p]
            /\ eproc'[p].req[1].json
            /\ eproc'[p].req[1].SharedId # "" )
          => /\ eproc'[p].pc = "done"
             /\ eproc'[p].err \notin {"", "nil"}
             /\ NothingMinted(p)]_vars

\* A request of a valid type with local metadata and a shared id was refused
\* for its shared id, and nothing was minted in the run.
C12_Witness ==
    \E p \in Procs :
        /\ eproc[p].pc = "done" /\ eproc[p].err = "ErrPreexisting"
        /\ eproc[p].req[1].SharedId = "install-1"
        /\ eproc[p].req[1].Type = "EPHEMERAL"
        /\ eproc[p].req[1].Meta.Local = <<LocalWithId>>
        /\ apikeys = {} /\ acache = EmptyStruct /\ DOMAIN agents = {"u0"}

\* C13: an enrollment that starts while the limiter is saturated returns in
\* its first step with the error of the limiter; it holds no slot, has read
\* neither the cache nor the store, has minted nothing, and the limiter, the
\* cache, the store and the issued keys are as they were.
C13_SaturatedLimiterSheds ==
    [][\A p \in Procs :
          ( /\ eproc[p].pc = "idle"
            /\ eproc'[p] # eproc[p]
            /\ held >= limit )
          => /\ eproc'[p] = [IdleEnroll EXCEPT !.pc = "done", !.err = "ErrMaxLimit"]
             /\ eproc'[p].reads = 0 /\ ~eproc'[p].fromCache /\ ~eproc'[p].slot
             /\ UNCHANGED <<limit, held, ekeys, ecache, acache, apikeys, agents>>]_vars

\* With one slot, held by an enrollment on its way, the other was shed.
C13_Witness ==
    \E p, q \in Procs :
        /\ limit = 1 /\ held = 1
        /\ eproc[p].pc = "done" /\ eproc[p].err = "ErrMaxLimit"
        /\ eproc[q].pc = "create" /\ eproc[q].slot

\* The admitted enrollments that have not returned.
InFlight == {p \in Procs : eproc[p].pc \notin {"idle", "done"}}

\* The held slots are those of the enrollments in flight, within the limit.
SlotsBalanced ==
    /\ held = Cardinality(InFlight)
    /\ \A p \in Procs : eproc[p].slot <=> p \in InFlight
    /\ held <= limit
    /\ (\A p \in Procs : eproc[p].pc = "done") => held = 0

\* C14: an admitted enrollment gives its slot back in the step in which it
\* returns, whether with a response, a validation error or a dependency
\* error, and in no other step; so the number of held slots is the number of
\* admitted enrollments in flight, never above the limit, and zero once all
\* have returned.
C14_SlotReleasedOnEveryExit ==
    [][/\ \A p \in Procs :
            /\ (eproc[p].slot /\ Returned(p))
               => held' = held - 1 /\ ~eproc'[p].slot
            /\ (eproc[p].slot /\ ~Returned(p))
               => eproc'[p].slot
       /\ SlotsBalanced
       /\ SlotsBalanced']_vars

\* All slots are free again after one enrollment succeeded, holding a slot
\* to its end, and the other failed validation after it was admitted.
C14_Witness ==
    \E p, q \in Procs :
        /\ held = 0 /\ limit = 2
        /\ eproc[p].pc = "done" /\ eproc[p].err = "nil"
        /\ eproc[q].pc = "done" /\ eproc[q].err = "ErrJson" /\ eproc[q].erec # Nil

\* The cache holds an entry for id, put there less than its TTL ago.
CachedWithinTTL(id) ==
    /\ id \in DOMAIN ecache
    /\ now < ecache[id].expires
    /\ ecache[id].expires <= now + kCacheEnrollmentTTL

\* C15: a resolution of an enrollment key id that starts while the cache
\* holds the entry an earlier resolution of that id put there, its TTL not
\* yet run out, returns the cached record without a read of the store; one
\* that starts when there is no entry, or when its TTL has run out, reads the
\* store once and, the record being active, puts it in the cache for a new
\* TTL.
C15_ResolutionCachedForTTL ==
    [][\A p \in Procs :
          LET c == eproc[p]
              d == eproc'[p]
          IN /\ (c.pc = "auth" /\ d # c /\ d.pc # "done")
                => IF CachedWithinTTL(d.keyId)
                   THEN /\ d.pc = "decode" /\ d.fromCache /\ d.reads = 0
                        /\ d.erec = <<ecache[d.keyId].rec>>
                        /\ ecache' = ecache
                   ELSE /\ d.pc = "find" /\ d.reads = 0 /\ ~d.fromCache
                        /\ ecache' = ecache
                        /\ d.keyId \in DOMAIN ecache => now >= ecache[d.keyId].expires
             /\ (c.pc = "find" /\ d # c)
                => /\ d.reads = 1
                   /\ d.pc = "decode"
                      => /\ d.erec = <<ekeys[c.keyId]>>
                         /\ ecache'[c.keyId] =
                                [rec |-> ekeys[c.keyId], expires |-> now + kCacheEnrollmentTTL]
             /\ c.pc \notin {"auth", "find"} => d.reads = c.reads]_vars

\* Two resolutions of k1 at the same time of day: the first read the store
\* once, the second was served from the cache and read nothing.
C15_Witness ==
    \E p, q \in Procs :
        /\ now = 0
        /\ eproc[p].keyId = "k1" /\ eproc[p].reads = 1 /\ ~eproc[p].fromCache
        /\ eproc[q].keyId = "k1" /\ eproc[q].reads = 0 /\ eproc[q].fromCache
        /\ eproc[p].pc = "done" /\ eproc[q].pc = "done"
        /\ eproc[q].erec = eproc[p].erec

\* C16: when the store answers the read of an enrollment key with an
\* inactive record, the enrollment returns an error in that step: the record
\* is not put in the cache, no agent id is generated, no access key minted or
\* cached, no agent record written. Hence every record in the cache of
\* enrollment keys was active when it was put there.
C16_InactiveKeyRejected ==
    [][/\ \A p \in Procs :
            ( /\ eproc[p].pc = "find"
              /\ eproc'[p] # eproc[p]
              /\ eproc'[p].err # "ErrStore"
              /\ ~ekeys[eproc[p].keyId].Active )
            => /\ eproc'[p].pc = "done"
               /\ eproc'[p].err = "ErrInactive"
               /\ eproc'[p].erec = Nil
               /\ ecache' = ecache
               /\ NothingMinted(p)
       /\ \A id \in DOMAIN ecache' : ecache'[id].rec.Active]_vars

\* The inactive key k2 was refused by one enrollment, and k1, deactivated
\* meanwhile, by the other; nothing was minted and the cache holds no record
\* but that of k1, if any.
C16_Witness ==
    \E p, q \in Procs :
        /\ eproc[p].pc = "done" /\ eproc[p].err = "ErrInactive" /\ eproc[p].keyId = "k2"
        /\ eproc[q].pc = "done" /\ eproc[q].err = "ErrInactive" /\ eproc[q].keyId = "k1"
        /\ DOMAIN ecache \subseteq {"k1"}
        /\ apikeys = {} /\ DOMAIN agents = {"u0"}

\* C17: the step in which an enrollment returns a response adds one agent
\* record, under the agent id it generated, an id no record had, holding the
\* agent data it built, and leaves every other record as it was; any other
\* step of an enrollment, the return of an error included, leaves the agent
\* records as they were. No record is ever changed or removed.
C17_AgentCreatedOnceOnSuccess ==
    [][/\ \A p \in Procs :
            (eproc'[p] # eproc[p])
            => IF Returned(p) /\ eproc'[p].err = "nil"
               THEN /\ eproc[p].agentId \notin DOMAIN agents
                    /\ DOMAIN agents' = DOMAIN agents \cup {eproc[p].agentId}
                    /\ agents'[eproc[p].agentId] = MarshalAgent(eproc[p].agentData[1])
               ELSE agents' = agents
       /\ \A a \in DOMAIN agents : a \in DOMAIN agents' /\ agents'[a] = agents[a]
       /\ Cardinality(DOMAIN agents') =
              Cardinality(DOMAIN agents)
                  + Cardinality({p \in Procs : Returned(p) /\ eproc'[p].err = "nil"})]_vars

\* One enrollment added its record beside the old one; the other failed at
\* the create and left none.
C17_Witness ==
    \E p, q \in Procs :
        /\ eproc[p].pc = "done" /\ eproc[p].err = "nil"
        /\ eproc[q].pc = "done" /\ eproc[q].err = "ErrCreate" /\ eproc[q].agentId # ""
        /\ DOMAIN agents = {"u0", eproc[p].agentId}
        /\ agents["u0"] = OldAgent

\* The access key minted by the enrollment d is valid, no agent record refers
\* to it, and it is not in the cache of access keys.
Orphaned(d, keys, index, cache) ==
    /\ d.accessApiKey[1] \in keys
    /\ d.accessApiKey[1].AgentId = d.agentId
    /\ d.agentId \notin DOMAIN index
    /\ \A a \in DOMAIN index : index[a].access_api_key_id # d.accessApiKey[1].Id
    /\ d.accessApiKey[1].Id \notin DOMAIN cache

\* C18: an enrollment that fails after its access key was minted, at the
\* patch of the local metadata or at the create of the agent record, returns
\* the error, and the key is not revoked: from then on it stays among the
\* valid keys, no agent record refers to it, and it is not in the cache of
\* access keys.
C18_MintedKeyOrphanedOnFailure ==
    [][\A p \in Procs :
          LET c == eproc[p]
              d == eproc'[p]
          IN /\ ( /\ c.pc \in {"mint", "create"} /\ Returned(p)
                  /\ d.err # "nil" /\ d.accessApiKey # Nil )
                => /\ d.err \in {"ErrUnmarshal", "ErrCreate"}
                   /\ d.resp = Nil
                   /\ Orphaned(d, apikeys', agents', acache')
             /\ (c.pc = "done" /\ c.err # "nil" /\ c.accessApiKey # Nil)
                => Orphaned(c, apikeys, agents, acache) /\ Orphaned(c, apikeys', agents', acache')
             /\ apikeys \subseteq apikeys']_vars

\* Both ways at once: one enrollment failed at the patch of its metadata,
\* the other at the create; both keys are valid and no agent was added.
C18_Witness ==
    \E p, q \in Procs :
        /\ eproc[p].pc = "done" /\ eproc[p].err = "ErrUnmarshal"
        /\ eproc[q].pc = "done" /\ eproc[q].err = "ErrCreate"
        /\ apikeys = {eproc[p].accessApiKey[1], eproc[q].accessApiKey[1]}
        /\ Cardinality(apikeys) = 2
        /\ DOMAIN agents = {"u0"} /\ acache = EmptyStruct

\* The fields of the local metadata v other than elastic.agent.id.
Siblings(v) ==
    [Top |-> [x \in DOMAIN v.m \ {"elastic"} |-> v.m[x]],
     Elastic |-> [x \in DOMAIN v.m["elastic"].m \ {"agent"} |-> v.m["elastic"].m[x]],
     Agent |-> [x \in DOMAIN v.m["elastic"].m["agent"].m \ {"id"} |->
                   v.m["elastic"].m["agent"].m[x]]]

\* The id at elastic.agent.id of the local metadata v.
EmbeddedId(v) == v.m["elastic"].m["agent"].m["id"]

\* C19 (as claimed): the patch of local metadata that has the path
\* elastic.agent.id sets that field to the agent id and leaves every other
\* field as the request had it; and the local metadata of every agent record
\* an enrollment wrote, when it has that path, holds the id of the record.
C19_PatchTouchesOnlyAgentId ==
    \A p \in Procs :
        LET d == eproc[p]
        IN (d.agentData # Nil /\ d.req[1].Meta.Local # Nil
               /\ HasAgentIdPath(d.req[1].Meta.Local[1]))
           => LET in == d.req[1].Meta.Local[1]
                  out == d.agentData[1].LocalMetadata[1]
              IN /\ HasAgentIdPath(out)
                 /\ EmbeddedId(out) = JStr(d.agentId)
                 /\ Siblings(out) = Siblings(in)
                 /\ d.agentId \in DOMAIN agents
                    => /\ agents[d.agentId].local_metadata = <<out>>
                       /\ EmbeddedId(agents[d.agentId].local_metadata[1]) = JStr(d.agentId)

\* The enrollment d resolved its enrollment key as usable and validated its
\* request.
Validated(d) ==
    /\ d.slot \/ d.pc = "done"
    /\ d.erec # Nil /\ d.erec[1].Active /\ d.erec[1].Id = d.keyId
    /\ d.req # Nil /\ d.req[1].json
    /\ d.req[1].Type \in ValidTypes /\ d.req[1].SharedId = ""

\* C20: in every state, every access key minted is the key of an enrollment
\* that had resolved its enrollment key as usable and validated its request,
\* and is scoped to the agent id of that enrollment; every agent record an
\* enrollment wrote refers to the access key that enrollment had minted for
\* its agent id; and every access key in the cache belongs to an agent record
\* that is persisted.
C20_SideEffectsInOrder ==
    /\ \A k \in apikeys :
          \E p \in Procs :
              /\ eproc[p].accessApiKey = <<k>>
              /\ eproc[p].agentId = k.AgentId /\ k.AgentId \in Uuids
              /\ Validated(eproc[p])
              /\ eproc[p].pc \in {"create", "done"}
    /\ \A a \in DOMAIN agents \cap Uuids :
          \E p \in Procs :
              /\ eproc[p].agentId = a
              /\ eproc[p].accessApiKey # Nil
              /\ eproc[p].accessApiKey[1] \in apikeys
              /\ eproc[p].accessApiKey[1].AgentId = a
              /\ agents[a].access_api_key_id = eproc[p].accessApiKey[1].Id
              /\ eproc[p].pc = "done" /\ eproc[p].err = "nil"
    /\ \A k \in DOMAIN acache :
          /\ acache[k].key \in apikeys
          /\ acache[k].key.Id = k
          /\ acache[k].key.AgentId \in DOMAIN agents
          /\ agents[acache[k].key.AgentId].access_api_key_id = k
    /\ \A p \in Procs :
          /\ eproc[p].pc \in {"idle", "auth", "find", "decode"}
             => eproc[p].agentId = "" /\ eproc[p].accessApiKey = Nil
          /\ eproc[p].pc = "mint" => eproc[p].accessApiKey = Nil /\ Validated(eproc[p])
          /\ eproc[p].pc = "create"
             => eproc[p].agentId \notin DOMAIN agents /\ eproc[p].resp = Nil

\* One enrollment is complete, key minted, record written, key cached, while
\* the other has minted its key and not yet written its record.
C20_Witness ==
    \E p, q \in Procs :
        /\ eproc[p].pc = "done" /\ eproc[p].err = "nil"
        /\ eproc[p].accessApiKey[1].Id \in DOMAIN acache
        /\ eproc[p].agentId \in DOMAIN agents
        /\ eproc[q].pc = "create"
        /\ eproc[q].accessApiKey[1] \in apikeys
        /\ eproc[q].accessApiKey[1].Id \notin DOMAIN acache

\* The enrollment p is complete: its key is valid, its agent record stored
\* under its agent id and referring to its key.
Enrolled(p) ==
    LET d == eproc[p]
    IN /\ d.pc = "done" /\ d.err = "nil"
       /\ d.agentId \in Uuids
       /\ d.accessApiKey[1] \in apikeys
       /\ d.accessApiKey[1].AgentId = d.agentId
       /\ d.agentId \in DOMAIN agents
       /\ agents[d.agentId] = MarshalAgent(d.agentData[1])
       /\ agents[d.agentId].access_api_key_id = d.accessApiKey[1].Id
       /\ d.resp[1].Item.ID = d.agentId

\* C21: enrollments that run side by side with one enrollment key keep apart.
\* A step of one leaves the locals of the other alone and no step of an
\* enrollment changes the enrollment key records, so the key stays usable;
\* the agent ids and the access keys of two enrollments differ; and when both
\* have returned a response, each has its own valid access key and its own
\* agent record under its own fresh agent id.
C21_ConcurrentEnrollsIndependent ==
    [][/\ \A p, q \in Procs :
            (p # q /\ eproc'[p] # eproc[p]) => eproc'[q] = eproc[q] /\ ekeys' = ekeys
       /\ \A p, q \in Procs :
            (p # q /\ eproc'[p].keyId = eproc'[q].keyId /\ eproc'[p].keyId # "")
            => /\ eproc'[p].agentId # "" => eproc'[p].agentId # eproc'[q].agentId
               /\ eproc'[p].accessApiKey # Nil
                  => /\ eproc'[q].accessApiKey # Nil
                        => eproc'[p].accessApiKey[1].Id # eproc'[q].accessApiKey[1].Id
                     /\ eproc'[p].accessApiKey[1].AgentId # eproc'[q].agentId
               /\ (eproc'[p].err = "nil" /\ eproc'[q].err = "nil")
                  => Enrolled(p)' /\ Enrolled(q)']_vars

\* Two enrollments with k1 overlapped from the resolution of the key on (both
\* missed the cache and read the store) and both returned a response; there
\* are two new agent records and two access keys, and k1 is still active.
C21_Witness ==
    /\ \A p \in Procs :
          /\ Enrolled(p)
          /\ eproc[p].keyId = "k1" /\ eproc[p].reads = 1 /\ ~eproc[p].fromCache
    /\ Cardinality(DOMAIN agents) = 3
    /\ Cardinality(apikeys) = 2
    /\ Cardinality(DOMAIN acache) = 2
    /\ ekeys["k1"].Active

\* C22 (as claimed): an enrollment gets past the resolution of its enrollment
\* key, from the cache or from the store, only if the record of the key in
\* the store is active at that moment; the steps that follow, the minting of
\* the access key and the writing of the agent record, do not look at the
\* record again, so they happen for no key whose record was inactive when
\* it was resolved.
C22_OnlyActiveKeysUsable ==
    [][\A p \in Procs :
          ( /\ eproc[p].pc \in {"auth", "find"}
            /\ eproc'[p].pc = "decode" )
          => /\ eproc'[p].keyId \in DOMAIN ekeys
             /\ ekeys[eproc'[p].keyId].Active]_vars

\* The enrollment p took the step that mints its access key and patches the
\* local metadata lm of its request, and the issuer did not fail.
Patched(p) ==
    /\ eproc[p].pc = "mint"
    /\ eproc'[p] # eproc[p]
    /\ eproc'[p].err # "ErrApiKey"

\* The patch was a no-op without error: the enrollment goes on with the
\* local metadata of the request as it was.
PatchNoOp(p) ==
    /\ eproc'[p].pc = "create"
    /\ eproc'[p].err = ""
    /\ eproc'[p].agentData[1].LocalMetadata = eproc[p].req[1].Meta.Local

\* C23 (as claimed): whenever the local metadata of the request has no path
\* elastic.agent.id, be it absent, an object lacking the path, or a value in
\* which the top-level value, elastic or agent has the wrong shape, the patch
\* returns its input without error and the enrollment goes on.
C23_PatchNoOpWithoutPath ==
    [][\A p \in Procs :
          LET lm == eproc[p].req[1].Meta.Local
          IN (Patched(p) /\ (lm = Nil \/ ~HasAgentIdPath(lm[1])))
             => PatchNoOp(p)]_vars

\* C23 (amended): when the local metadata of the request is absent, or JSON
\* null, or an object without the path elastic.agent.id, elastic or agent
\* being absent or of the wrong shape, the patch returns its input without
\* error and the enrollment goes on; when it is any other JSON value (an
\* array, a string, a number, a boolean) the patch returns the error of the
\* decoder and the enrollment fails at this step.
C23_PatchNoOpForObjectWithoutPath ==
    [][\A p \in Procs :
          LET lm == eproc[p].req[1].Meta.Local
          IN /\ ( /\ Patched(p)
                  /\ \/ lm = Nil
                     \/ lm[1].k = "null"
                     \/ lm[1].k = "obj" /\ ~HasAgentIdPath(lm[1]) )
                => PatchNoOp(p)
             /\ (Patched(p) /\ lm # Nil /\ lm[1].k \notin {"obj", "null"})
                => /\ eproc'[p].pc = "done"
                   /\ eproc'[p].err = "ErrUnmarshal"
                   /\ agents' = agents]_vars

\* An agent was enrolled with local metadata whose elastic.agent is an array:
\* the record and the response carry the metadata as sent.
C23_Witness ==
    \E p \in Procs :
        /\ eproc[p].pc = "done" /\ eproc[p].err = "nil"
        /\ eproc[p].req[1].Meta.Local = <<AgentNotObject>>
        /\ agents[eproc[p].agentId].local_metadata = <<AgentNotObject>>
        /\ eproc[p].resp[1].Item.LocalMeta = <<AgentNotObject>>

\* The write of a claim by p took effect: the lease of the policy identifies
\* the caller with its version and the time the claim read.
ClaimWritten(p) ==
    LET c == lproc[p]
    IN /\ Exists(leaders', c.policyId)
       /\ leaders'[c.policyId].src["server"] = [id |-> c.serverId, version |-> c.version]
       /\ leaders'[c.policyId].src["@timestamp"] = c.l["Timestamp"]

\* Every lease that identifies a server carries a version and a time.
LeasesWellFormed(index) ==
    \A pol \in DOMAIN index :
        /\ Has(index[pol].src, "@timestamp")
        /\ Has(index[pol].src, "server")
           => /\ index[pol].src["server"].id \in Servers
              /\ index[pol].src["server"].version \in Versions

\* The claim of p is a first claim that overlaps another: it read no lease,
\* and by the time of its write the policy has one.
OvertakenFirstClaim(p) ==
    /\ lproc[p].pc = "take_write"
    /\ ~lproc[p].found
    /\ Exists(leaders, lproc[p].policyId)

\* C24 (as claimed): every write step of a claim that returns success makes
\* the lease identify the caller with its own version and time, the leases
\* stay well formed, and a first claim overtaken by another first claim on
\* the policy returns success too, unless the store fails.
C24_ConcurrentClaimsAllSucceed ==
    [][\A p \in Procs :
          /\ (lproc[p].pc = "take_write" /\ Stepped(p) /\ lproc'[p].ret = "nil")
             => ClaimWritten(p)
          /\ LeasesWellFormed(leaders')
          /\ (OvertakenFirstClaim(p) /\ Stepped(p) /\ lproc'[p].err # "ErrStore")
             => lproc'[p].ret = "nil" /\ ClaimWritten(p)]_vars

\* C24 (amended): every write step of a claim that returns success makes the
\* lease identify the caller with its own version and time, and the leases
\* stay well formed, in every interleaving; a claim that read a lease
\* overwrites it whoever wrote it meanwhile, or returns the error of the
\* store and leaves it; a first claim overtaken by another first claim does
\* not succeed: its create is refused, the error is returned and the lease
\* stays as the other claim wrote it.
C24_ConcurrentClaimsLastWriterWins ==
    [][\A p \in Procs :
          /\ (lproc[p].pc = "take_write" /\ Stepped(p) /\ lproc'[p].ret = "nil")
             => ClaimWritten(p)
          /\ (lproc[p].pc = "take_write" /\ Stepped(p) /\ lproc'[p].ret # "nil")
             => leaders' = leaders /\ lproc'[p].ret = lproc'[p].err
          /\ LeasesWellFormed(leaders')
          /\ (OvertakenFirstClaim(p) /\ Stepped(p))
             => /\ lproc'[p].pc = "done"
                /\ lproc'[p].ret \in {"ErrElasticVersionConflict", "ErrStore"}
                /\ leaders' = leaders]_vars

\* Two first claims on one policy overlapped: both read no lease; the create
\* of srvA succeeded and the lease identifies srvA; the create of srvB was
\* refused with a version conflict.
C24_Witness ==
    \E p, q \in Procs :
        /\ p # q
        /\ lproc[p].pc = "done" /\ lproc[p].op = "take" /\ ~lproc[p].found
        /\ lproc[q].pc = "done" /\ lproc[q].op = "take" /\ ~lproc[q].found
        /\ lproc[p].policyId = lproc[q].policyId
        /\ lproc[p].serverId = "srvA" /\ lproc[p].ret = "nil"
        /\ lproc[q].serverId = "srvB" /\ lproc[q].ret = "ErrElasticVersionConflict"
        /\ Identifies(leaders, lproc[p].policyId, "srvA")
        /\ leaders[lproc[p].policyId].seq = 1

\* C25 (as claimed): a release whose read finds a lease without a server
\* identity takes the identity as not matching the caller, whoever the caller
\* is: it returns success in that step, without a crash, has sent no write,
\* and leaves the index as it was.
C25_ReleaseOfLeaseWithoutServer ==
    [][\A p \in Procs :
          ( /\ lproc[p].pc = "release_read"
            /\ Stepped(p)
            /\ lproc'[p].err # "ErrStore"
            /\ Exists(leaders, lproc[p].policyId)
            /\ ~Has(leaders[lproc[p].policyId].src, "server") )
          => /\ lproc'[p].pc = "done"
             /\ lproc'[p].ret = "nil"
             /\ lproc'[p].issued = 0
             /\ leaders' = leaders]_vars

====
